---- MODULE Spec2Model ----
(***************************************************************************)
(* A model of lz_eytzinger_tree: an N-ary tree stored in a flat array of   *)
(* optional values, addressed by the Eytzinger index arithmetic.           *)
(*                                                                         *)
(* Option<T> is modelled as a sequence of length 0 (None) or 1 (Some(x)).  *)
(* Rust's 0-based Vec index i is position i + 1 of a TLA+ sequence.        *)
(***************************************************************************)
EXTENDS Integers, Sequences, FiniteSets, TLC

\* ------------------------------------------------------------- bounds
\* largest array index any operation of the model addresses
MaxIndex == 4
\* branching factors of the trees built: 1..MaxChildren
MaxChildren == 2
\* calls of next() made on an iterator after it first returned None
MaxExtraNext == 1
\* width in bits of the model's usize (32 or 64 in a build of the crate);
\* the trees of Spec stay far below it, the index calculator inputs of
\* SpecCalc range over all of it
UsizeBits == 5
\* branching factors of the index calculator calls made in pairs
MaxPairChildren == 3
\* calls of the handler followed within one walk
MaxWalkCalls == 4

\* The values stored. EytzingerTree<N> is generic in N and never inspects a
\* value (no trait bound on N in any operation modelled here), so two
\* distinguishable values stand for every N.
Values == {"a", "b"}

VARIABLES
    nodes,              \* EytzingerTree.nodes : Vec<Option<N>>
    len,                \* EytzingerTree.len
    index_calculator,   \* EytzingerTree.index_calculator.max_children_per_node
    last,               \* the last operation: its inputs, results and the tree before it
    iter,               \* the live borrowing iterator, if any
    calc,               \* inputs and results of the index calculator calls
    walk                \* the walk in progress: its cursor and the handler's last answer

vars == <<nodes, len, index_calculator, last, iter, calc, walk>>

\* ------------------------------------------------------------- Option
None == <<>>
Some(x) == <<x>>
is_some(o) == o # None
unwrap(o) == o[1]

\* ------------------------------------------------- index calculator
\* the assertion letting through an offset equal to k
child_offset_in_range_inclusive(k, child_offset) == child_offset <= k

\* EytzingerIndexCalculator::child_index: the assertion of line 22
child_offset_in_range(k, child_offset) == child_offset < k

\* the number of values of usize: usize::MAX + 1
UsizeModulus == 2 ^ UsizeBits

\* EytzingerIndexCalculator::child_index, line 27: whether the usize
\* arithmetic `(parent * k) + child_offset + 1` overflows. With overflow
\* checks on (a debug build) the call then panics, without them (a release
\* build) the result wraps around.
child_index_overflows(k, parent, child_offset) ==
    (parent * k) + child_offset + 1 >= UsizeModulus

\* EytzingerIndexCalculator::child_index, past its assertion, as a build
\* without overflow checks computes it
child_index(k, parent, child_offset) ==
    ((parent * k) + child_offset + 1) % UsizeModulus

\* EytzingerIndexCalculator::parent_index
parent_index(k, child) ==
    IF child = 0 THEN None ELSE Some((child - 1) \div k)

\* EytzingerIndexCalculator::child_indexes, line 41: whether `first + k`
\* overflows
child_indexes_overflows(k, parent) ==
    \/ child_index_overflows(k, parent, 0)
    \/ child_index(k, parent, 0) + k >= UsizeModulus

\* EytzingerIndexCalculator::child_indexes: the range first..first + k, as a
\* build without overflow checks computes it
child_indexes(k, parent) ==
    LET first_child_index == child_index(k, parent, 0)
    IN  first_child_index .. (((first_child_index + k) % UsizeModulus) - 1)

\* --------------------------------------------------------- the store
\* The tree as a value: what the methods of EytzingerTree read and write.
Tree(n, l, k) == [nodes |-> n, len |-> l, k |-> k]

\* EytzingerTree::new
new(max_children_per_node) == Tree(<<None>>, 0, max_children_per_node)

\* EytzingerTree::value: nodes.get(index)
value(t, index) ==
    IF index < Len(t.nodes) THEN Some(t.nodes[index + 1]) ELSE None

\* EytzingerTree::node: Some(Node{index}) iff nodes.get(index) is Some(Some(_))
node(t, index) ==
    IF value(t, index) # None /\ is_some(unwrap(value(t, index)))
    THEN Some(index) ELSE None

\* EytzingerTree::node_mut: Ok(NodeMut{index}) under the same condition
node_mut(t, index) == node(t, index)

\* EytzingerTree::parent
parent(t, child) ==
    LET p == parent_index(t.k, child)
    IN  IF p = None THEN None ELSE node(t, unwrap(p))

\* EytzingerTree::parent_mut
parent_mut(t, child) ==
    LET p == parent_index(t.k, child)
    IN  IF p = None THEN None ELSE node_mut(t, unwrap(p))

\* a child lookup that also demands a value in the parent's slot
child_of_occupied_parent(t, parent_idx, child_offset) ==
    IF node(t, parent_idx) = None THEN None
    ELSE node(t, child_index(t.k, parent_idx, child_offset))

\* EytzingerTree::child
child(t, parent_idx, child_offset) ==
    node(t, child_index(t.k, parent_idx, child_offset))

\* EytzingerTree::child_mut
child_mut(t, parent_idx, child_offset) ==
    node_mut(t, child_index(t.k, parent_idx, child_offset))

\* EytzingerTree::ensure_size
ensure_size(n, index) ==
    LET desired_len == index + 1
    IN  IF desired_len >= Len(n)
        THEN n \o [j \in 1..(desired_len - Len(n)) |-> None]
        ELSE n

\* set_value with the `is_none()` test before `len += 1` left out
set_value_always_counts(t, index, new_value) ==
    Tree([ensure_size(t.nodes, index) EXCEPT ![index + 1] = Some(new_value)],
         t.len + 1, t.k)

\* EytzingerTree::set_value
set_value(t, index, new_value) ==
    LET grown == ensure_size(t.nodes, index)
        old_value == grown[index + 1]
    IN  Tree([grown EXCEPT ![index + 1] = Some(new_value)],
             IF old_value = None THEN t.len + 1 ELSE t.len,
             t.k)

\* set_root_value clearing the tree before it stores the value
set_root_value_clearing(t, new_value) == set_value(Tree(<<None>>, 0, t.k), 0, new_value)

\* EytzingerTree::set_root_value
set_root_value(t, new_value) == set_value(t, 0, new_value)

\* set_child_value emptying every slot after the child position before it
\* stores the value
set_child_value_clearing(t, parent_idx, child_offset, new_value) ==
    LET index == child_index(t.k, parent_idx, child_offset)
        kept == [j \in 1..Len(t.nodes) |-> IF j > index + 1 THEN None ELSE t.nodes[j]]
    IN  set_value(Tree(kept,
                       Cardinality({j \in 1..Len(kept) : kept[j] # None}),
                       t.k),
                  index, new_value)

\* EytzingerTree::set_child_value
set_child_value(t, parent_idx, child_offset, new_value) ==
    set_value(t, child_index(t.k, parent_idx, child_offset), new_value)

\* EytzingerTree::remove_root_value: truncate(1), len = 0, take the root
remove_root_value(t) ==
    [tree  |-> Tree(<<None>>, 0, t.k),
     value |-> t.nodes[1]]

\* take_at with the `is_some()` test before `len -= 1` left out
take_at_unguarded(t, index) ==
    Tree([t.nodes EXCEPT ![index + 1] = None], t.len - 1, t.k)

\* Option::take on nodes[index] followed by the `len -= 1` the callers make
\* when a value was there
take_at(t, index) ==
    Tree([t.nodes EXCEPT ![index + 1] = None],
         IF is_some(t.nodes[index + 1]) THEN t.len - 1 ELSE t.len,
         t.k)

\* EytzingerTree::enumerate_values: the (index, value) pairs of the occupied
\* slots, by increasing index
enumerate_values(t) ==
    LET indexed == [j \in 1..Len(t.nodes) |-> <<j - 1, t.nodes[j]>>]
        present(p) == p[2] # None
        kept == SelectSeq(indexed, present)
    IN  [n \in 1..Len(kept) |-> <<kept[n][1], unwrap(kept[n][2])>>]

\* equality as #[derive(PartialEq)] would give it: field by field
EytzingerTree_eq_derived(a, b) ==
    /\ a.k = b.k
    /\ a.len = b.len
    /\ a.nodes = b.nodes

\* PartialEq for EytzingerTree
EytzingerTree_eq(a, b) ==
    /\ a.k = b.k
    /\ a.len = b.len
    /\ enumerate_values(a) = enumerate_values(b)

\* ------------------------------------------------- traversal iterators
PreOrder == "PreOrder"
PostOrder == "PostOrder"

\* new() starting at child offset 1
NodeChildIter_new_from_one(node_index) == [node |-> node_index, child_offset |-> 1]

\* NodeChildIter::new
NodeChildIter_new(node_index) == [node |-> node_index, child_offset |-> 0]

\* NodeChildIter::next: the result is the advanced iterator and the item
RECURSIVE NodeChildIter_next(_, _)
NodeChildIter_next(t, it) ==
    IF it.child_offset < t.k
    THEN LET next_child == child(t, it.node, it.child_offset)
             advanced == [it EXCEPT !.child_offset = @ + 1]
         IN  IF next_child # None
             THEN [iter |-> advanced, item |-> next_child]
             ELSE NodeChildIter_next(t, advanced)
    ELSE [iter |-> it, item |-> None]

\* DepthFirstIter::new
DepthFirstIter_new(start, order) ==
    [kind |-> "depth_first", order |-> order, root |-> start,
     first_pending |-> start, nodes |-> <<>>]

\* DepthFirstIter::next, the `while let Some(current) = self.nodes.pop()` loop
RECURSIVE DepthFirstIter_loop(_, _)

\* the loop yielding every node when it is pushed, whatever the order
DepthFirstIter_loop_yield_on_push(t, it) ==
    IF it.nodes = <<>>
    THEN [iter |-> it, item |-> None]
    ELSE LET current == it.nodes[Len(it.nodes)]
             popped == SubSeq(it.nodes, 1, Len(it.nodes) - 1)
             r == NodeChildIter_next(t, current)
         IN  IF r.item # None
             THEN [iter |-> [it EXCEPT !.nodes =
                       popped \o <<r.iter, NodeChildIter_new(unwrap(r.item))>>],
                   item |-> r.item]
             ELSE DepthFirstIter_loop(t, [it EXCEPT !.nodes = popped])

DepthFirstIter_loop(t, it) ==
    IF it.nodes = <<>>
    THEN [iter |-> it, item |-> None]
    ELSE LET current == it.nodes[Len(it.nodes)]
             popped == SubSeq(it.nodes, 1, Len(it.nodes) - 1)
             r == NodeChildIter_next(t, current)
         IN  IF r.item # None
             THEN LET pushed == [it EXCEPT !.nodes =
                          popped \o <<r.iter, NodeChildIter_new(unwrap(r.item))>>]
                  IN  IF it.order = PreOrder
                      THEN [iter |-> pushed, item |-> r.item]
                      ELSE DepthFirstIter_loop(t, pushed)
             ELSE LET dropped == [it EXCEPT !.nodes = popped]
                  IN  IF it.order = PostOrder
                      THEN [iter |-> dropped, item |-> Some(current.node)]
                      ELSE DepthFirstIter_loop(t, dropped)

\* next() that never yields the starting node on its first call
DepthFirstIter_next_first_unyielded(t, it) ==
    IF it.first_pending # None
    THEN DepthFirstIter_loop(t,
             [it EXCEPT !.first_pending = None,
                        !.nodes = Append(@, NodeChildIter_new(unwrap(it.first_pending)))])
    ELSE DepthFirstIter_loop(t, it)

\* DepthFirstIter::next
DepthFirstIter_next(t, it) ==
    IF it.first_pending # None
    THEN LET first_node == unwrap(it.first_pending)
             started == [it EXCEPT !.first_pending = None,
                                   !.nodes = Append(@, NodeChildIter_new(first_node))]
         IN  IF it.order = PreOrder
             THEN [iter |-> started, item |-> Some(first_node)]
             ELSE DepthFirstIter_loop(t, started)
    ELSE DepthFirstIter_loop(t, it)

\* BreadthFirstIter::new
BreadthFirstIter_new(start) ==
    [kind |-> "breadth_first", order |-> "LevelOrder", root |-> start,
     first_pending |-> None,
     nodes |-> IF start # None THEN <<NodeChildIter_new(unwrap(start))>> ELSE <<>>]

\* BreadthFirstIter::next
RECURSIVE BreadthFirstIter_next(_, _)

\* next() with the child pushed at the front of the queue, not at the back
BreadthFirstIter_next_push_front(t, it) ==
    IF it.nodes = <<>>
    THEN [iter |-> it, item |-> None]
    ELSE LET current == Head(it.nodes)
             popped == Tail(it.nodes)
             r == NodeChildIter_next(t, current)
         IN  IF r.item # None
             THEN BreadthFirstIter_next(t, [it EXCEPT !.nodes =
                      (<<NodeChildIter_new(unwrap(r.item))>> \o <<r.iter>>) \o popped])
             ELSE [iter |-> [it EXCEPT !.nodes = popped],
                   item |-> Some(current.node)]

BreadthFirstIter_next(t, it) ==
    IF it.nodes = <<>>
    THEN [iter |-> it, item |-> None]
    ELSE LET current == Head(it.nodes)
             popped == Tail(it.nodes)
             r == NodeChildIter_next(t, current)
         IN  IF r.item # None
             THEN BreadthFirstIter_next(t, [it EXCEPT !.nodes =
                      (<<r.iter>> \o popped) \o <<NodeChildIter_new(unwrap(r.item))>>])
             ELSE [iter |-> [it EXCEPT !.nodes = popped],
                   item |-> Some(current.node)]

\* Iterator::next of whichever borrowing iterator `it` is
Iterator_next(t, it) ==
    IF it.kind = "depth_first" THEN DepthFirstIter_next(t, it)
    ELSE IF it.kind = "breadth_first" THEN BreadthFirstIter_next(t, it)
    ELSE NodeChildIter_next(t, it)

\* Iterator::collect after map(|n| n.index): next() until it returns None
RECURSIVE collect(_, _)
collect(t, it) ==
    LET r == Iterator_next(t, it)
    IN  IF r.item = None THEN <<>> ELSE <<unwrap(r.item)>> \o collect(t, r.iter)

\* Iterator::skip(1) on the collected sequence
skip1(s) == IF s = <<>> THEN <<>> ELSE Tail(s)

\* ------------------------------------------------- owning iterators
\* traversal::DepthFirstIterator::new / traversal::BreadthFirstIterator::new:
\* the iterator takes the tree by value; `inner` is the traversal state of
\* the corresponding borrowing iterator, `source` the tree as it was handed
\* over
OwningIterator_new(t, inner) ==
    [kind |-> "owning", source |-> t, inner |-> inner]

\* Iterator::next of an owning iterator: the next node of the traversal is
\* visited and its value is taken out of its slot as it is yielded
OwningIterator_next(t, it) ==
    LET r == Iterator_next(t, it.inner)
        advanced == [it EXCEPT !.inner = r.iter]
    IN  IF r.item = None
        THEN [tree |-> t, iter |-> advanced, item |-> None]
        ELSE [tree |-> take_at(t, unwrap(r.item)),
              iter |-> advanced,
              item |-> t.nodes[unwrap(r.item) + 1]]

\* Iterator::collect of an owning iterator: next() until it returns None
RECURSIVE into_collect(_, _)
into_collect(t, it) ==
    LET r == OwningIterator_next(t, it)
    IN  IF r.item = None THEN <<>>
        ELSE <<unwrap(r.item)>> \o into_collect(r.tree, r.iter)

\* EytzingerTree::into_depth_first_iterator
into_depth_first_iterator(t, order) ==
    OwningIterator_new(t, DepthFirstIter_new(node(t, 0), order))

\* EytzingerTree::into_breadth_first_iterator
into_breadth_first_iterator(t) ==
    OwningIterator_new(t, BreadthFirstIter_new(node(t, 0)))

\* ----------------------------------------------------------- remove
\* the loop of lines 240-245: take every listed index, counting down len
RECURSIVE take_all(_, _)
take_all(t, indices) ==
    IF indices = <<>> THEN t
    ELSE take_all(take_at(t, Head(indices)), Tail(indices))

\* remove dropping every slot from the removed index on
remove_truncating(t, index) ==
    IF index >= Len(t.nodes) \/ node(t, index) = None
    THEN [tree |-> t, value |-> None]
    ELSE LET kept == SubSeq(t.nodes, 1, index) \o <<None>>
         IN  [tree  |-> Tree(kept,
                             Cardinality({j \in 1..Len(kept) : kept[j] # None}),
                             t.k),
              value |-> t.nodes[index + 1]]

\* EytzingerTree::remove
remove(t, index) ==
    IF index >= Len(t.nodes) \/ node(t, index) = None
    THEN [tree |-> t, value |-> None]
    ELSE LET indices_to_remove ==
                 skip1(collect(t, DepthFirstIter_new(node(t, index), PostOrder)))
             old_value == t.nodes[index + 1]
         IN  [tree  |-> take_all(take_at(t, index), indices_to_remove),
              value |-> old_value]

\* EntryMut::remove with the vacant arm clearing the tree
EntryMut_remove_vacant_clears(t, index) ==
    IF node_mut(t, index) # None THEN remove(t, index)
    ELSE remove_root_value(t)

\* EntryMut::remove / remove_mut: NodeMut::remove in the occupied arm, the
\* entry as it is in the vacant arm
EntryMut_remove(t, index) ==
    IF node_mut(t, index) # None THEN remove(t, index)
    ELSE [tree |-> t, value |-> None]

\* EytzingerIndexCalculator::child_index with its assertion: None when the
\* assertion fails and the call panics
child_index_asserted(k, parent_idx, child_offset) ==
    IF child_offset_in_range(k, child_offset)
    THEN Some(child_index(k, parent_idx, child_offset))
    ELSE None

\* the calls of a handle that take a child offset
ChildOffsetCalls == {"child", "to_child", "set_child_value", "child_entry"}

\* EytzingerTree::child / child_mut / set_child_value / child_entry(_mut):
\* each computes child_index(parent, child) first; the tree afterwards and
\* whether the call panicked
child_offset_call(t, call, parent_idx, child_offset, new_value) ==
    LET index == child_index_asserted(t.k, parent_idx, child_offset)
    IN  IF index = None THEN [tree |-> t, panicked |-> TRUE]
        ELSE IF call = "set_child_value"
        THEN [tree |-> set_value(t, unwrap(index), unwrap(new_value)),
              panicked |-> FALSE]
        ELSE [tree |-> t, panicked |-> FALSE]

\* -------------------------------------------------------- split_off
\* Result<NodeMut, NodeMut>: the handle is the index it stands at
Ok(index) == [ok |-> TRUE, handle |-> index]
Err(index) == [ok |-> FALSE, handle |-> index]

\* NodeMut::to_parent: Ok(parent handle) or Err(self)
NodeMut_to_parent(t, index) ==
    LET moved == parent_mut(t, index)
    IN  IF moved # None THEN Ok(unwrap(moved)) ELSE Err(index)

\* to_child with the Err handle standing at the child position
NodeMut_to_child_err_moved(t, index, child_offset) ==
    LET moved == child_mut(t, index, child_offset)
    IN  IF moved # None THEN Ok(unwrap(moved))
        ELSE Err(child_index(t.k, index, child_offset))

\* NodeMut::to_child: Ok(child handle) or Err(self)
NodeMut_to_child(t, index, child_offset) ==
    LET moved == child_mut(t, index, child_offset)
    IN  IF moved # None THEN Ok(unwrap(moved)) ELSE Err(index)

\* or_insert storing the value in the occupied arm as well
entry_or_insert_overwrites(t, index, new_value) == set_value(t, index, new_value)

\* EytzingerTree::entry_mut followed by EntryMut::or_insert:
\* an occupied entry is returned as it is, a vacant one is filled by set_value
entry_or_insert(t, index, new_value) ==
    IF node_mut(t, index) # None THEN t ELSE set_value(t, index, new_value)

\* split_off, the `while current_parent <= previous_parent` loop of lines
\* 287-292; a failed expect or unwrap ends it with panicked = TRUE
RECURSIVE split_off_ascend(_, _, _, _)
split_off_ascend(dst, new_node, current_parent, previous_parent) ==
    IF current_parent <= previous_parent
    THEN LET up == NodeMut_to_parent(dst, new_node)
             above == parent_index(dst.k, previous_parent)
         IN  IF ~up.ok \/ above = None
             THEN [panicked |-> TRUE, new_node |-> new_node]
             ELSE split_off_ascend(dst, up.handle, current_parent, unwrap(above))
    ELSE [panicked |-> FALSE, new_node |-> new_node]

\* split_off, the `for index_to_move in indexes_to_move_iter` loop of lines
\* 275-301. acc: the source, the new tree, the destination cursor, the
\* previous parent and whether an expect or unwrap has failed
RECURSIVE split_off_move(_, _)
split_off_move(acc, indexes_to_move) ==
    IF indexes_to_move = <<>> \/ acc.panicked THEN acc
    ELSE LET index_to_move == Head(indexes_to_move)
             value_to_move == acc.src.nodes[index_to_move + 1]
             src1 == take_at(acc.src, index_to_move)
             current_parent == parent_index(acc.src.k, index_to_move)
         IN  IF value_to_move = None
             THEN [acc EXCEPT !.panicked = TRUE]
             ELSE IF current_parent = None
             THEN [acc EXCEPT !.src = src1, !.panicked = TRUE]
             ELSE LET asc == IF acc.previous_parent # None
                             THEN split_off_ascend(acc.dst, acc.new_node,
                                      unwrap(current_parent), unwrap(acc.previous_parent))
                             ELSE [panicked |-> FALSE, new_node |-> acc.new_node]
                      child_offset == index_to_move
                                        - child_index(acc.src.k, unwrap(current_parent), 0)
                      dst_index == child_index(acc.dst.k, asc.new_node, child_offset)
                  IN  IF asc.panicked
                      THEN [acc EXCEPT !.src = src1, !.panicked = TRUE]
                      ELSE split_off_move(
                               [src |-> src1,
                                dst |-> entry_or_insert(acc.dst, dst_index,
                                                        unwrap(value_to_move)),
                                new_node |-> dst_index,
                                previous_parent |-> current_parent,
                                panicked |-> FALSE],
                               Tail(indexes_to_move))

\* EytzingerTree::split_off: the source afterwards, the new tree (None when
\* the call panicked and never returned one) and whether it panicked
split_off(t, index) ==
    LET new_tree == new(t.k)
        indexes_to_move ==
            IF node(t, index) = None THEN <<>>
            ELSE collect(t, DepthFirstIter_new(node(t, index), PreOrder))
    IN  IF indexes_to_move = <<>>
        THEN [tree |-> t, new_tree |-> Some(new_tree), panicked |-> FALSE]
        ELSE LET index_to_move == Head(indexes_to_move)
                 new_root_value == t.nodes[index_to_move + 1]
                 acc == split_off_move(
                            [src |-> take_at(t, index_to_move),
                             dst |-> set_root_value(new_tree, unwrap(new_root_value)),
                             new_node |-> 0,
                             previous_parent |-> parent_index(t.k, index_to_move),
                             panicked |-> FALSE],
                            Tail(indexes_to_move))
             IN  [tree |-> acc.src,
                  new_tree |-> IF acc.panicked THEN None ELSE Some(acc.dst),
                  panicked |-> acc.panicked]

\* ------------------------------------------------- handles and entries
\* The tree the variables hold
T == Tree(nodes, len, index_calculator)

\* A Node / NodeMut handle at `index` can be obtained: root() / root_mut()
\* and then child() / to_child() down a path of occupied nodes
RECURSIVE Navigable(_, _)
Navigable(t, index) ==
    /\ node(t, index) # None
    /\ \/ index = 0
       \/ Navigable(t, unwrap(parent_index(t.k, index)))

\* The indices NodeMut handles can stand at
Handles(t) == {i \in 0..MaxIndex : Navigable(t, i)}

\* The (parent, offset) pairs child operations of a handle can address
ChildSlots(t) ==
    {po \in Handles(t) \X (0..(t.k - 1)) :
        child_index(t.k, po[1], po[2]) <= MaxIndex}

\* The indices EntryMut cursors can stand at: root_entry_mut() and
\* child_entry_mut(offset) of a handle
Entries(t) ==
    {0} \cup {child_index(t.k, po[1], po[2]) : po \in ChildSlots(t)}

\* ------------------------------------------------------------- walk
\* Entry / EntryMut: Occupied(node) or Vacant(vacant_entry), at an index
Entry_Occupied(index) == [occupied |-> TRUE, index |-> index]
Entry_Vacant(index) == [occupied |-> FALSE, index |-> index]

\* EytzingerTree::entry
entry(t, index) ==
    IF node(t, index) # None THEN Entry_Occupied(unwrap(node(t, index)))
    ELSE Entry_Vacant(index)

\* EytzingerTree::entry_mut
entry_mut(t, index) ==
    IF node_mut(t, index) # None THEN Entry_Occupied(unwrap(node_mut(t, index)))
    ELSE Entry_Vacant(index)

\* EytzingerTree::child_entry, which Node::child_entry calls
child_entry(t, parent_idx, child_offset) ==
    entry(t, child_index(t.k, parent_idx, child_offset))

\* EytzingerTree::child_entry_mut, which NodeMut::child_entry_mut and
\* NodeMut::to_child_entry_mut call
child_entry_mut(t, parent_idx, child_offset) ==
    entry_mut(t, child_index(t.k, parent_idx, child_offset))

\* Entry::parent: Node::parent or VacantEntry::parent, both tree.parent(index)
Entry_parent(t, e) == parent(t, e.index)

\* EntryMut::to_parent: NodeMut::to_parent or VacantEntryMut::to_parent, both
\* tree.parent_mut(index); Err gives the entry back
EntryMut_to_parent(t, e) ==
    LET moved == parent_mut(t, e.index)
    IN  IF moved # None THEN Ok(unwrap(moved)) ELSE Err(e.index)

\* enum WalkAction
Stop == [tag |-> "Stop", offset |-> 0]
Parent == [tag |-> "Parent", offset |-> 0]
Child(index) == [tag |-> "Child", offset |-> index]

\* the actions a handler can answer with without failing child_index's assertion
WalkActions(t) == {Stop, Parent} \cup {Child(o) : o \in 0..(t.k - 1)}

\* the outcome of one turn of a walk's loop
WalkTurn(break, levels, current, to_parent) ==
    [break |-> break, levels |-> levels, current |-> current,
     to_parent |-> to_parent]

\* walk's loop ending when the child asked for is vacant
Entry_walk_stops_at_vacant(t, self, current, action) ==
    IF action = Stop THEN WalkTurn(TRUE, 0, current, "none")
    ELSE IF action = Parent
    THEN LET p == Entry_parent(t, self)
         IN  IF p # None THEN WalkTurn(FALSE, 0, Entry_Occupied(unwrap(p)), "none")
             ELSE WalkTurn(TRUE, 0, current, "none")
    ELSE IF current.occupied /\ child_entry(t, current.index, action.offset).occupied
         THEN WalkTurn(FALSE, 0, child_entry(t, current.index, action.offset), "none")
         ELSE WalkTurn(TRUE, 0, current, "none")

\* Walkable for Entry::walk, the match on the handler's answer in the loop
Entry_walk(t, self, current, action) ==
    IF action = Stop THEN WalkTurn(TRUE, 0, current, "none")
    ELSE IF action = Parent
    THEN LET p == Entry_parent(t, self)
         IN  IF p # None THEN WalkTurn(FALSE, 0, Entry_Occupied(unwrap(p)), "none")
             ELSE WalkTurn(TRUE, 0, current, "none")
    ELSE IF current.occupied
         THEN WalkTurn(FALSE, 0, child_entry(t, current.index, action.offset), "none")
         ELSE WalkTurn(TRUE, 0, current, "none")

\* WalkableMut for EntryMut::walk_mut, lines 124-134: the handler's answer
\* to the call on the starting entry
EntryMut_walk_mut_first(t, self, action) ==
    IF action.tag = "Child" /\ self.occupied
    THEN WalkTurn(FALSE, 1, child_entry_mut(t, self.index, action.offset), "none")
    ELSE WalkTurn(TRUE, 0, self, "none")

\* the loop of walk_mut without the `Parent if levels == 0` arm
EntryMut_walk_mut_loop_unguarded(t, levels, current, action) ==
    IF action = Stop THEN WalkTurn(TRUE, levels, current, "none")
    ELSE IF action = Parent
    THEN LET r == EntryMut_to_parent(t, current)
         IN  IF r.ok THEN WalkTurn(FALSE, levels - 1, Entry_Occupied(r.handle), "ok")
             ELSE WalkTurn(TRUE, levels, current, "err")
    ELSE IF current.occupied
         THEN WalkTurn(FALSE, levels + 1,
                       child_entry_mut(t, current.index, action.offset), "none")
         ELSE WalkTurn(TRUE, levels, current, "none")

\* WalkableMut for EntryMut::walk_mut, lines 136-155: the match on the
\* handler's answer in the loop
EntryMut_walk_mut_loop(t, levels, current, action) ==
    IF action = Parent /\ levels = 0 THEN WalkTurn(TRUE, levels, current, "none")
    ELSE IF action = Stop THEN WalkTurn(TRUE, levels, current, "none")
    ELSE IF action = Parent
    THEN LET r == EntryMut_to_parent(t, current)
         IN  IF r.ok THEN WalkTurn(FALSE, levels - 1, Entry_Occupied(r.handle), "ok")
             ELSE WalkTurn(TRUE, levels, current, "err")
    ELSE IF current.occupied
         THEN WalkTurn(FALSE, levels + 1,
                       child_entry_mut(t, current.index, action.offset), "none")
         ELSE WalkTurn(TRUE, levels, current, "none")

\* What a WalkMutHandler can do with the &mut EntryMut it is given before it
\* answers: nothing, or_insert_mut(v), remove_mut(), or, from the node of an
\* occupied entry, child_mut(o) and to_parent() twice to reach the node above
\* the entry and remove() it
WalkMutations == {"none", "or_insert_mut", "remove_mut", "remove_parent"}

\* whether the handler can make the call on entry e of tree t
can_on_mut_node(t, e, mutation) ==
    IF mutation = "remove_parent"
    THEN /\ e.occupied
         /\ node_mut(t, e.index) # None
         /\ \E o \in 0..(t.k - 1) : child_mut(t, e.index, o) # None
         /\ parent_mut(t, e.index) # None
    ELSE e.occupied => node_mut(t, e.index) # None

\* the tree and the entry after the handler's call
on_mut_node(t, e, mutation, v) ==
    IF mutation = "or_insert_mut"
    THEN IF e.occupied THEN [tree |-> t, entry |-> e]
         ELSE [tree |-> set_value(t, e.index, v), entry |-> Entry_Occupied(e.index)]
    ELSE IF mutation = "remove_mut"
    THEN [tree |-> EntryMut_remove(t, e.index).tree, entry |-> Entry_Vacant(e.index)]
    ELSE IF mutation = "remove_parent"
    THEN [tree |-> remove(t, unwrap(parent_mut(t, e.index))).tree, entry |-> e]
    ELSE [tree |-> t, entry |-> e]

\* ------------------------------------------------------ the state
NoTree == [nodes |-> <<>>, len |-> 0, k |-> 0]

Op(name, index, offset, val, ret, pre, split, panicked) ==
    [op |-> name, index |-> index, offset |-> offset, value |-> val,
     ret |-> ret, pre |-> pre, split |-> split, panicked |-> panicked]

\* no result of an operation is alive
NoOp == Op("none", 0, 0, None, None, NoTree, None, FALSE)

NoIter == [alive |-> FALSE, it |-> None, yielded |-> <<>>, exhausted |-> 0]

NoCalc == [k |-> 1, parent |-> 0, offset |-> 0, child |-> None, back |-> None,
           computed |-> FALSE, panicked |-> FALSE]

\* no walk is running
NoWalk == [active |-> FALSE, mutable |-> FALSE,
           self |-> Entry_Vacant(0), current |-> Entry_Vacant(0),
           levels |-> 0, in_loop |-> FALSE, calls |-> 0,
           on |-> Entry_Vacant(0), on_levels |-> 0, action |-> Stop,
           to_parent |-> "none", returned |-> FALSE]

\* EytzingerTree::new(k) for some branching factor k
Init ==
    /\ \E k \in 1..MaxChildren :
          /\ nodes = new(k).nodes
          /\ len = new(k).len
          /\ index_calculator = new(k).k
    /\ last = NoOp
    /\ iter = NoIter
    /\ walk = NoWalk
    /\ calc = NoCalc

\* Nothing borrows the tree: no iterator is alive, and what the last
\* operation returned (a NodeMut, a VacantEntryMut, both holding the
\* exclusive borrow) has been dropped
Idle == ~iter.alive /\ last = NoOp

Store(t) ==
    /\ nodes' = t.nodes
    /\ len' = t.len
    /\ index_calculator' = t.k

\* tree.set_root_value(v)
SetRootValue(v) ==
    /\ Idle
    /\ Store(set_root_value(T, v))
    /\ last' = Op("set_root_value", 0, 0, Some(v), None, T, None, FALSE)
    /\ UNCHANGED <<iter, calc, walk>>

\* NodeMut::set_child_value(offset, v) on the handle at i
NodeMutSetChildValue(i, o, v) ==
    /\ Idle
    /\ <<i, o>> \in ChildSlots(T)
    /\ Store(set_child_value(T, i, o, v))
    /\ last' = Op("set_child_value", child_index(T.k, i, o), o, Some(v), None, T,
                  None, FALSE)
    /\ UNCHANGED <<iter, calc, walk>>

\* EntryMut::or_insert(v) (VacantEntryMut::insert when vacant) at entry e
EntryMutOrInsert(e, v) ==
    /\ Idle
    /\ e \in Entries(T)
    /\ Store(entry_or_insert(T, e, v))
    /\ last' = Op("or_insert", e, 0, Some(v), Some(e), T, None, FALSE)
    /\ UNCHANGED <<iter, calc, walk>>

\* VacantEntryMut::insert(v) at the vacant entry e; the NodeMut returned
\* stands at e
VacantEntryMutInsert(e, v) ==
    /\ Idle
    /\ e \in Entries(T)
    /\ node_mut(T, e) = None
    /\ Store(set_value(T, e, v))
    /\ last' = Op("insert", e, 0, Some(v), Some(e), T, None, FALSE)
    /\ UNCHANGED <<iter, calc, walk>>

\* NodeMut::remove on the NodeMut that VacantEntryMut::insert has just
\* returned; `pre` stays the tree before the insert
InsertedNodeMutRemove ==
    /\ ~iter.alive
    /\ last.op = "insert"
    /\ LET r == remove(T, unwrap(last.ret))
       IN  /\ Store(r.tree)
           /\ last' = Op("insert_remove", last.index, 0, last.value, r.value,
                         last.pre, None, r.value = None)
    /\ UNCHANGED <<iter, calc, walk>>

\* NodeMut::remove on the handle at i
NodeMutRemove(i) ==
    /\ Idle
    /\ i \in Handles(T)
    /\ LET r == remove(T, i)
       IN  /\ Store(r.tree)
           /\ last' = Op("remove", i, 0, None, r.value, T, None, r.value = None)
    /\ UNCHANGED <<iter, calc, walk>>

\* EntryMut::remove at entry e: NodeMut::remove when occupied, nothing when vacant
EntryMutRemove(e) ==
    /\ Idle
    /\ e \in Entries(T)
    /\ LET r == EntryMut_remove(T, e)
       IN  /\ Store(r.tree)
           /\ last' = Op("entry_remove", e, 0, None, r.value, T, None, FALSE)
    /\ UNCHANGED <<iter, calc, walk>>

\* NodeMut::remove_child_value(offset) on the handle at i
NodeMutRemoveChildValue(i, o) ==
    /\ Idle
    /\ <<i, o>> \in ChildSlots(T)
    /\ LET e == child_index(T.k, i, o)
           r == IF node_mut(T, e) # None THEN remove(T, e)
                ELSE [tree |-> T, value |-> None]
       IN  /\ Store(r.tree)
           /\ last' = Op("remove_child_value", e, o, None, r.value, T, None, FALSE)
    /\ UNCHANGED <<iter, calc, walk>>

\* tree.remove_root_value()
RemoveRootValue ==
    /\ Idle
    /\ LET r == remove_root_value(T)
       IN  /\ Store(r.tree)
           /\ last' = Op("remove_root_value", 0, 0, None, r.value, T, None, FALSE)
    /\ UNCHANGED <<iter, calc, walk>>

\* tree.clear(): remove_root_value with the result dropped
Clear ==
    /\ Idle
    /\ Store(remove_root_value(T).tree)
    /\ last' = Op("clear", 0, 0, None, None, T, None, FALSE)
    /\ UNCHANGED <<iter, calc, walk>>

\* NodeMut::to_parent on the handle at i
NodeMutToParent(i) ==
    /\ Idle
    /\ i \in Handles(T)
    /\ last' = Op("to_parent", i, 0, None, Some(NodeMut_to_parent(T, i)), T,
                  None, FALSE)
    /\ UNCHANGED <<nodes, len, index_calculator, iter, calc, walk>>

\* NodeMut::to_child(o) on the handle at i
NodeMutToChild(i, o) ==
    /\ Idle
    /\ i \in Handles(T)
    /\ child_offset_in_range(T.k, o)
    /\ last' = Op("to_child", i, o, None, Some(NodeMut_to_child(T, i, o)), T,
                  None, FALSE)
    /\ UNCHANGED <<nodes, len, index_calculator, iter, calc, walk>>

\* child(o), to_child(o), set_child_value(o, v) or child_entry(o) on the
\* handle at i, with an offset o that is not below the branching factor
ChildOffsetOutOfRange(call, i, o, v) ==
    /\ Idle
    /\ i \in Handles(T)
    /\ o >= T.k
    /\ LET new_value == IF call = "set_child_value" THEN Some(v) ELSE None
           r == child_offset_call(T, call, i, o, new_value)
       IN  /\ Store(r.tree)
           /\ last' = Op("offset_out_of_range", i, o, new_value, Some(call), T,
                         None, r.panicked)
    /\ UNCHANGED <<iter, calc, walk>>

\* NodeMut::split_off on the handle at i
NodeMutSplitOff(i) ==
    /\ Idle
    /\ i \in Handles(T)
    /\ LET r == split_off(T, i)
       IN  /\ Store(r.tree)
           /\ last' = Op("split_off", i, 0, None, None, T, r.new_tree, r.panicked)
    /\ UNCHANGED <<iter, calc, walk>>

\* ------------------------------------------------ borrowing iterators
\* A new iterator starts its shared borrow of the tree
Borrow(it) ==
    /\ iter' = [alive |-> TRUE, it |-> Some(it), yielded |-> <<>>, exhausted |-> 0]
    /\ UNCHANGED <<nodes, len, index_calculator, last, calc, walk>>

\* tree.depth_first_iter(order): starts at root(), which may be None
TreeDepthFirstIter(order) ==
    /\ Idle
    /\ Borrow(DepthFirstIter_new(node(T, 0), order))

\* tree.breadth_first_iter()
TreeBreadthFirstIter ==
    /\ Idle
    /\ Borrow(BreadthFirstIter_new(node(T, 0)))

\* Node::depth_first_iter(order) on the handle at i
NodeDepthFirstIter(i, order) ==
    /\ Idle
    /\ i \in Handles(T)
    /\ Borrow(DepthFirstIter_new(Some(i), order))

\* Node::breadth_first_iter() on the handle at i
NodeBreadthFirstIter(i) ==
    /\ Idle
    /\ i \in Handles(T)
    /\ Borrow(BreadthFirstIter_new(Some(i)))

\* Node::child_iter() on the handle at i; the live iterator is the
\* NodeChildIter itself, marked with its kind
NodeChildIter(i) ==
    /\ Idle
    /\ i \in Handles(T)
    /\ LET it == NodeChildIter_new(i)
       IN  Borrow([kind |-> "child", node |-> it.node,
                   child_offset |-> it.child_offset])

\* Iterator::next on the live iterator; the item is recorded in `yielded`,
\* a None in `exhausted`
IterNext ==
    /\ iter.alive
    /\ unwrap(iter.it).kind # "owning"
    /\ iter.exhausted <= MaxExtraNext
    /\ LET r == Iterator_next(T, unwrap(iter.it))
       IN  iter' = [iter EXCEPT
                       !.it = Some(r.iter),
                       !.yielded = IF r.item = None THEN @
                                   ELSE Append(@, unwrap(r.item)),
                       !.exhausted = IF r.item = None \/ @ > 0 THEN @ + 1 ELSE @]
    /\ UNCHANGED <<nodes, len, index_calculator, last, calc, walk>>

\* the iterator is dropped and its borrow of the tree ends
IterDrop ==
    /\ iter.alive
    /\ unwrap(iter.it).kind # "owning"
    /\ iter' = NoIter
    /\ UNCHANGED <<nodes, len, index_calculator, last, calc, walk>>

\* tree.into_depth_first_iterator(order): the tree is moved into the
\* iterator, so no other operation of the tree is available afterwards
IntoDepthFirstIterator(order) ==
    /\ Idle
    /\ iter' = [alive |-> TRUE,
                it |-> Some(into_depth_first_iterator(T, order)),
                yielded |-> <<>>, exhausted |-> 0]
    /\ UNCHANGED <<nodes, len, index_calculator, last, calc, walk>>

\* tree.into_breadth_first_iterator()
IntoBreadthFirstIterator ==
    /\ Idle
    /\ iter' = [alive |-> TRUE,
                it |-> Some(into_breadth_first_iterator(T)),
                yielded |-> <<>>, exhausted |-> 0]
    /\ UNCHANGED <<nodes, len, index_calculator, last, calc, walk>>

\* next() on the owning iterator; yielded collects the values it returns
OwningIterNext ==
    /\ iter.alive
    /\ unwrap(iter.it).kind = "owning"
    /\ iter.exhausted <= MaxExtraNext
    /\ LET r == OwningIterator_next(T, unwrap(iter.it))
       IN  /\ Store(r.tree)
           /\ iter' = [iter EXCEPT
                          !.it = Some(r.iter),
                          !.yielded = IF r.item = None THEN @
                                      ELSE Append(@, unwrap(r.item)),
                          !.exhausted = IF r.item = None \/ @ > 0 THEN @ + 1 ELSE @]
    /\ UNCHANGED <<last, calc, walk>>

\* the trees the caller has at hand to compare the tree with: the clone it
\* took before the last operation, the tree split_off returned, a new tree
ComparedTrees ==
    {last.pre}
      \cup (IF last.split # None THEN {unwrap(last.split)} ELSE {})
      \cup {new(k) : k \in 1..MaxChildren}

\* tree == other: afterwards last.pre is the other tree and last.ret the
\* answer
TreeEq(other) ==
    /\ ~iter.alive
    /\ last # NoOp /\ ~last.panicked /\ last.op # "eq"
    /\ other \in ComparedTrees
    /\ last' = Op("eq", last.index, 0, None, Some(EytzingerTree_eq(T, other)),
                  other, None, FALSE)
    /\ UNCHANGED <<nodes, len, index_calculator, iter, calc, walk>>

\* The caller drops what the last operation returned, which ends its borrow
\* of the tree. A panic ends the program instead.
Release ==
    /\ last # NoOp
    /\ ~last.panicked
    /\ last' = NoOp
    /\ UNCHANGED <<nodes, len, index_calculator, iter, calc, walk>>

Next ==
    \/ \E v \in Values : SetRootValue(v)
    \/ \E i \in 0..MaxIndex, o \in 0..(MaxChildren - 1), v \in Values :
          NodeMutSetChildValue(i, o, v)
    \/ \E e \in 0..MaxIndex, v \in Values : EntryMutOrInsert(e, v)
    \/ \E i \in 0..MaxIndex : NodeMutRemove(i)
    \/ \E e \in 0..MaxIndex : EntryMutRemove(e)
    \/ \E i \in 0..MaxIndex, o \in 0..(MaxChildren - 1) : NodeMutRemoveChildValue(i, o)
    \/ RemoveRootValue
    \/ Clear
    \/ \E i \in 0..MaxIndex : NodeMutSplitOff(i)
    \/ \E order \in {PreOrder, PostOrder} : TreeDepthFirstIter(order)
    \/ TreeBreadthFirstIter
    \/ \E i \in 0..MaxIndex, order \in {PreOrder, PostOrder} : NodeDepthFirstIter(i, order)
    \/ \E i \in 0..MaxIndex : NodeBreadthFirstIter(i)
    \/ IterNext
    \/ IterDrop
    \/ Release
    \/ \E e \in 0..MaxIndex, v \in Values : VacantEntryMutInsert(e, v)
    \/ InsertedNodeMutRemove
    \/ \E i \in 0..MaxIndex : NodeMutToParent(i)
    \/ \E i \in 0..MaxIndex, o \in 0..(MaxChildren - 1) : NodeMutToChild(i, o)
    \/ \E i \in 0..MaxIndex : NodeChildIter(i)
    \/ \E call \in ChildOffsetCalls, i \in 0..MaxIndex, o \in 1..MaxChildren,
          v \in Values : ChildOffsetOutOfRange(call, i, o, v)
    \/ \E order \in {PreOrder, PostOrder} : IntoDepthFirstIterator(order)
    \/ IntoBreadthFirstIterator
    \/ OwningIterNext
    \/ \E other \in ComparedTrees : TreeEq(other)

Spec == Init /\ [][Next]_vars

\* ------------------------------------------- index calculator calls
\* Inputs of the index calculator: child_index(parent, offset) followed by
\* parent_index of its result (computed = TRUE), or parent_index(0) asked
\* directly
InitCalc ==
    /\ nodes = new(1).nodes
    /\ len = new(1).len
    /\ index_calculator = new(1).k
    /\ last = NoOp
    /\ iter = NoIter
    /\ walk = NoWalk
    /\ \E k \in 1..(UsizeModulus - 1), p \in 0..(UsizeModulus - 1) :
          \E o \in 0..(k - 1) :
             calc \in {[NoCalc EXCEPT !.k = k, !.parent = p, !.offset = o],
                       [NoCalc EXCEPT !.k = k, !.parent = p, !.offset = o,
                                      !.child = Some(0)]}

\* index_calculator.child_index(parent, offset), in a build with or without
\* overflow checks; a panic ends the program
CalcChildIndex ==
    /\ calc.child = None
    /\ ~calc.panicked
    /\ child_offset_in_range(calc.k, calc.offset)
    /\ \E overflow_checks \in BOOLEAN :
          IF overflow_checks /\ child_index_overflows(calc.k, calc.parent, calc.offset)
          THEN calc' = [calc EXCEPT !.panicked = TRUE]
          ELSE calc' = [calc EXCEPT !.computed = TRUE, !.child =
                           Some(child_index(calc.k, calc.parent, calc.offset))]
    /\ UNCHANGED <<nodes, len, index_calculator, last, iter, walk>>

\* index_calculator.parent_index(child)
CalcParentIndex ==
    /\ calc.child # None
    /\ calc.back = None
    /\ calc' = [calc EXCEPT !.back = Some(parent_index(calc.k, unwrap(calc.child)))]
    /\ UNCHANGED <<nodes, len, index_calculator, last, iter, walk>>

NextCalc ==
    \/ CalcChildIndex
    \/ CalcParentIndex

SpecCalc == InitCalc /\ [][NextCalc]_vars

\* ---------------------------------- index calculator calls, in pairs
\* no pair of calls made
NoPair ==
    [k |-> 1, parent |-> 0, offset |-> 0, other_parent |-> 0, other_offset |-> 0,
     child |-> None, other_child |-> None, indexes |-> None, recovered |-> None,
     panicked |-> FALSE]

\* Inputs: two (parent, offset) pairs under one branching factor
InitPair ==
    /\ nodes = new(1).nodes
    /\ len = new(1).len
    /\ index_calculator = new(1).k
    /\ last = NoOp
    /\ iter = NoIter
    /\ walk = NoWalk
    /\ \E k \in 1..MaxPairChildren, p, q \in 0..(UsizeModulus - 1) :
          \E o, r \in 0..(k - 1) :
             calc = [NoPair EXCEPT !.k = k, !.parent = p, !.offset = o,
                                   !.other_parent = q, !.other_offset = r]

\* child_index(parent, offset) and child_index(other_parent, other_offset),
\* in a build with or without overflow checks
PairChildIndex ==
    /\ calc.child = None
    /\ ~calc.panicked
    /\ child_offset_in_range(calc.k, calc.offset)
    /\ child_offset_in_range(calc.k, calc.other_offset)
    /\ \E overflow_checks \in BOOLEAN :
          IF overflow_checks
               /\ (\/ child_index_overflows(calc.k, calc.parent, calc.offset)
                   \/ child_index_overflows(calc.k, calc.other_parent, calc.other_offset))
          THEN calc' = [calc EXCEPT !.panicked = TRUE]
          ELSE calc' = [calc EXCEPT
                   !.child = Some(child_index(calc.k, calc.parent, calc.offset)),
                   !.other_child =
                       Some(child_index(calc.k, calc.other_parent, calc.other_offset))]
    /\ UNCHANGED <<nodes, len, index_calculator, last, iter, walk>>

\* child_indexes(parent), in a build with or without overflow checks
PairChildIndexes ==
    /\ calc.child # None
    /\ calc.indexes = None
    /\ ~calc.panicked
    /\ \E overflow_checks \in BOOLEAN :
          IF overflow_checks /\ child_indexes_overflows(calc.k, calc.parent)
          THEN calc' = [calc EXCEPT !.panicked = TRUE]
          ELSE calc' = [calc EXCEPT !.indexes = Some(child_indexes(calc.k, calc.parent))]
    /\ UNCHANGED <<nodes, len, index_calculator, last, iter, walk>>

\* split_off, lines 282-295: the parent and the offset of the index `child`;
\* for index 0 the expect of line 284 fails, and an offset below zero is an
\* overflow of the subtraction
PairRecover ==
    /\ calc.indexes # None
    /\ calc.recovered = None
    /\ ~calc.panicked
    /\ LET index_to_move == unwrap(calc.child)
           current_parent == parent_index(calc.k, index_to_move)
       IN  \E overflow_checks \in BOOLEAN :
             IF current_parent = None
             THEN calc' = [calc EXCEPT !.panicked = TRUE]
             ELSE LET first == child_index(calc.k, unwrap(current_parent), 0)
                  IN  IF overflow_checks
                           /\ (\/ child_index_overflows(calc.k, unwrap(current_parent), 0)
                               \/ index_to_move < first)
                      THEN calc' = [calc EXCEPT !.panicked = TRUE]
                      ELSE calc' = [calc EXCEPT !.recovered =
                               Some([parent |-> unwrap(current_parent),
                                     offset |-> (index_to_move - first) % UsizeModulus])]
    /\ UNCHANGED <<nodes, len, index_calculator, last, iter, walk>>

NextPair ==
    \/ PairChildIndex
    \/ PairChildIndexes
    \/ PairRecover

SpecPair == InitPair /\ [][NextPair]_vars

\* ------------------------------------------------------------ walks
\* entry.walk(handler) on the Entry at e; Node, NodeMut, EntryMut and the tree
\* (root_entry) forward to it
EntryWalk(e) ==
    /\ Idle
    /\ ~walk.active
    /\ e \in Entries(T)
    /\ walk' = [NoWalk EXCEPT !.active = TRUE,
                              !.self = entry(T, e),
                              !.current = entry(T, e)]
    /\ UNCHANGED <<nodes, len, index_calculator, last, iter, calc>>

\* entry.walk_mut(handler) on the EntryMut at e; the tree forwards its
\* root_entry_mut to it
EntryMutWalkMut(e) ==
    /\ Idle
    /\ ~walk.active
    /\ e \in Entries(T)
    /\ walk' = [NoWalk EXCEPT !.active = TRUE,
                              !.mutable = TRUE,
                              !.self = entry_mut(T, e),
                              !.current = entry_mut(T, e)]
    /\ UNCHANGED <<nodes, len, index_calculator, last, iter, calc>>

\* the child position a Child answer leads to stays within the modelled indices
ChildWithinBound(t, e, action) ==
    (action.tag = "Child" /\ e.occupied) =>
        child_index(t.k, e.index, action.offset) <= MaxIndex

\* one turn of walk's loop: handler.on_node(&current) answers `action`
WalkOnNode(action) ==
    /\ walk.active /\ ~walk.mutable /\ ~walk.returned
    /\ walk.calls < MaxWalkCalls
    /\ action \in WalkActions(T)
    /\ ChildWithinBound(T, walk.current, action)
    /\ LET r == Entry_walk(T, walk.self, walk.current, action)
       IN  walk' = [walk EXCEPT !.calls = @ + 1,
                               !.in_loop = TRUE,
                               !.on = walk.current,
                               !.action = action,
                               !.current = r.current,
                               !.returned = r.break]
    /\ UNCHANGED <<nodes, len, index_calculator, last, iter, calc>>

\* one call of handler.on_mut_node in walk_mut, on self before the loop and
\* on current inside it: the handler makes `mutation` and answers `action`
WalkMutOnMutNode(mutation, v, action) ==
    /\ walk.active /\ walk.mutable /\ ~walk.returned
    /\ walk.calls < MaxWalkCalls
    /\ can_on_mut_node(T, walk.current, mutation)
    /\ LET h == on_mut_node(T, walk.current, mutation, v)
       IN  /\ action \in WalkActions(T)
           /\ ChildWithinBound(T, h.entry, action)
           /\ LET r == IF walk.in_loop
                       THEN EntryMut_walk_mut_loop(h.tree, walk.levels, h.entry, action)
                       ELSE EntryMut_walk_mut_first(h.tree, h.entry, action)
              IN  /\ Store(h.tree)
                  /\ walk' = [walk EXCEPT
                                 !.calls = @ + 1,
                                 !.self = IF walk.in_loop THEN @ ELSE h.entry,
                                 !.in_loop = ~r.break \/ @,
                                 !.on = h.entry,
                                 !.on_levels = walk.levels,
                                 !.action = action,
                                 !.levels = r.levels,
                                 !.current = r.current,
                                 !.to_parent = r.to_parent,
                                 !.returned = r.break]
    /\ UNCHANGED <<last, iter, calc>>

\* walk / walk_mut returns and its borrow of the tree ends
WalkReturn ==
    /\ walk.active /\ walk.returned
    /\ walk' = NoWalk
    /\ UNCHANGED <<nodes, len, index_calculator, last, iter, calc>>

\* a walk moves by positions and occupancy only, never by the values stored:
\* one value is enough for the trees that are walked
WalkValues == {"a"}

\* the tree is built and taken apart between walks
NextWalk ==
    \/ ~walk.active /\ \E v \in WalkValues : SetRootValue(v)
    \/ ~walk.active /\ \E i \in 0..MaxIndex, o \in 0..(MaxChildren - 1), v \in WalkValues :
          NodeMutSetChildValue(i, o, v)
    \/ ~walk.active /\ \E i \in 0..MaxIndex : NodeMutRemove(i)
    \/ ~walk.active /\ Release
    \/ \E e \in 0..MaxIndex : EntryWalk(e)
    \/ \E e \in 0..MaxIndex : EntryMutWalkMut(e)
    \/ \E a \in WalkActions(T) : WalkOnNode(a)
    \/ \E m \in WalkMutations, v \in WalkValues, a \in WalkActions(T) :
          WalkMutOnMutNode(m, v, a)
    \/ WalkReturn

SpecWalk == Init /\ [][NextWalk]_vars

\* =================================================================
\* Properties
\* =================================================================

\* array indices of the backing array of t
Slots(t) == 0..(Len(t.nodes) - 1)

\* the slot at index j of t; a position beyond the array is vacant
SlotAt(t, j) == IF j < Len(t.nodes) THEN t.nodes[j + 1] ELSE None

Occupied(t, j) == SlotAt(t, j) # None

OccupiedSet(t) == {j \in Slots(t) : Occupied(t, j)}

\* j is a or lies below a in the index arithmetic of branching factor k
RECURSIVE InSubtree(_, _, _)
InSubtree(k, a, j) ==
    \/ j = a
    \/ /\ j > a
       /\ InSubtree(k, a, (j - 1) \div k)

\* the child offsets leading from a down to j
RECURSIVE RelPath(_, _, _)
RelPath(k, a, j) ==
    IF j <= a THEN <<>>
    ELSE RelPath(k, a, (j - 1) \div k) \o <<(j - 1) % k>>

\* depth of index j under branching factor k
RECURSIVE Depth(_, _)
Depth(k, j) == IF j = 0 THEN 0 ELSE 1 + Depth(k, (j - 1) \div k)

\* the occupied children of i, by increasing offset
RECURSIVE ChildrenFrom(_, _, _)
ChildrenFrom(t, i, o) ==
    IF o >= t.k THEN <<>>
    ELSE (IF Occupied(t, (i * t.k) + o + 1) THEN <<(i * t.k) + o + 1>> ELSE <<>>)
         \o ChildrenFrom(t, i, o + 1)

\* recursive pre-order and post-order of the occupied subtree of i
RECURSIVE RecPreOrder(_, _)
RECURSIVE RecPreOrderAll(_, _)
RecPreOrder(t, i) == <<i>> \o RecPreOrderAll(t, ChildrenFrom(t, i, 0))
RecPreOrderAll(t, s) ==
    IF s = <<>> THEN <<>> ELSE RecPreOrder(t, Head(s)) \o RecPreOrderAll(t, Tail(s))

RECURSIVE RecPostOrder(_, _)
RECURSIVE RecPostOrderAll(_, _)
RecPostOrder(t, i) == RecPostOrderAll(t, ChildrenFrom(t, i, 0)) \o <<i>>
RecPostOrderAll(t, s) ==
    IF s = <<>> THEN <<>> ELSE RecPostOrder(t, Head(s)) \o RecPostOrderAll(t, Tail(s))

\* level order: a whole level, then the children of that level's nodes
RECURSIVE ChildrenOfAll(_, _)
ChildrenOfAll(t, s) ==
    IF s = <<>> THEN <<>> ELSE ChildrenFrom(t, Head(s), 0) \o ChildrenOfAll(t, Tail(s))

RECURSIVE RecLevelOrder(_, _)
RecLevelOrder(t, level) ==
    IF level = <<>> THEN <<>> ELSE level \o RecLevelOrder(t, ChildrenOfAll(t, level))

\* the values stored at a sequence of indices
ValuesAt(t, s) == [n \in 1..Len(s) |-> unwrap(SlotAt(t, s[n]))]

IsPrefix(s, r) == Len(s) <= Len(r) /\ s = SubSeq(r, 1, Len(s))

Range(s) == {s[n] : n \in 1..Len(s)}

RemoveOps == {"remove", "entry_remove", "remove_child_value"}

\* ------------------------------------------------------------------
\* C1  Cascading delete: when an occupied node A is removed
\* (NodeMut::remove, EntryMut::remove, remove_child_value), no index in A's
\* subtree is occupied afterwards and len() has decreased by exactly the
\* number of nodes that were occupied in that subtree.
C1_CascadingDelete ==
    (last.op \in RemoveOps /\ Occupied(last.pre, last.index)) =>
        /\ \A j \in Slots(T) : InSubtree(T.k, last.index, j) => ~Occupied(T, j)
        /\ len = last.pre.len
                   - Cardinality({j \in OccupiedSet(last.pre) :
                                      InSubtree(T.k, last.index, j)})

\* ------------------------------------------------------------------
\* C2  Invariant I1: every occupied index other than 0 has an occupied
\* parent index, in the tree and in any tree produced by split_off.
I1(t) == \A j \in OccupiedSet(t) : j # 0 => Occupied(t, (j - 1) \div t.k)

C2_InvariantI1 ==
    /\ I1(T)
    /\ last.split # None => I1(unwrap(last.split))

\* ------------------------------------------------------------------
\* C3  Invariant I2: the cached len() equals the number of occupied slots of
\* the backing array, in the tree and in any tree produced by split_off.
I2(t) == t.len = Cardinality(OccupiedSet(t))

C3_InvariantI2 ==
    /\ I2(T)
    /\ last.split # None => I2(unwrap(last.split))

\* a removal that took more than one node has happened
C3_Witness ==
    /\ last.op = "remove"
    /\ last.pre.len - len >= 2

\* ------------------------------------------------------------------
\* C4  Split-off structural equivalence: after split_off on an occupied
\* node, the new tree holds exactly the values of that node's subtree, each
\* at the same path of child offsets from the new root as it had from the
\* old subtree root, so the pre-order value sequences agree.
C4_SplitOffEquivalence ==
    (last.op = "split_off" /\ Occupied(last.pre, last.index)) =>
        /\ last.split # None
        /\ LET new_tree == unwrap(last.split)
               before == RecPreOrder(last.pre, last.index)
               after == RecPreOrder(new_tree, 0)
           IN  /\ Occupied(new_tree, 0)
               /\ new_tree.k = last.pre.k
               /\ Len(after) = Len(before)
               /\ Cardinality(OccupiedSet(new_tree)) = Len(before)
               /\ ValuesAt(new_tree, after) = ValuesAt(last.pre, before)
               /\ \A n \in 1..Len(before) :
                      RelPath(new_tree.k, 0, after[n])
                          = RelPath(last.pre.k, last.index, before[n])

\* ------------------------------------------------------------------
\* C5  After split_off on an occupied index i, the source tree has no
\* occupied index inside the subtree of i, and every slot outside that
\* subtree holds the same value (or vacancy) as before the split.
C5_SplitOffFrame ==
    (last.op = "split_off" /\ Occupied(last.pre, last.index)) =>
        \A j \in 0..MaxIndex :
            IF InSubtree(T.k, last.index, j)
            THEN ~Occupied(T, j)
            ELSE SlotAt(T, j) = SlotAt(last.pre, j)

\* ------------------------------------------------------------------
\* The tree of the traversal tests (lib.rs, tests): branching factor 2,
\* root 5; left 2 with children 1 and 4, 4 with left child 3; right 7 with
\* right child 8
TestTree ==
    LET t1 == set_root_value(new(2), 5)
        left == child_index(2, 0, 0)
        t2 == set_child_value(t1, 0, 0, 2)
        t3 == set_child_value(t2, left, 0, 1)
        left_right == child_index(2, left, 1)
        t4 == set_child_value(t3, left, 1, 4)
        t5 == set_child_value(t4, left_right, 0, 3)
        right == child_index(2, 0, 1)
        t6 == set_child_value(t5, 0, 1, 7)
    IN  set_child_value(t6, right, 1, 8)

TestTreePreOrder ==
    ValuesAt(TestTree, collect(TestTree, DepthFirstIter_new(node(TestTree, 0), PreOrder)))

TestTreePostOrder ==
    ValuesAt(TestTree, collect(TestTree, DepthFirstIter_new(node(TestTree, 0), PostOrder)))

TestTreeBreadthFirst ==
    ValuesAt(TestTree, collect(TestTree, BreadthFirstIter_new(node(TestTree, 0))))

TestTreeLeftBreadthFirst ==
    ValuesAt(TestTree, collect(TestTree, BreadthFirstIter_new(child(TestTree, 0, 0))))

\* the live iterator
It == unwrap(iter.it)

\* no index is yielded twice
NoRepeat(s) == \A a, b \in 1..Len(s) : s[a] = s[b] => a = b

\* ------------------------------------------------------------------
\* C6  Pre-order depth-first iteration from a node yields every node of its
\* occupied subtree before any of that node's descendants, siblings by
\* increasing child offset; the sequence is the recursive pre-order of the
\* subtree (for the 7-node test tree: [5,2,1,4,3,7,8]).
C6_PreOrder ==
    /\ TestTreePreOrder = <<5, 2, 1, 4, 3, 7, 8>>
    /\ (iter.alive /\ It.kind = "depth_first" /\ It.order = PreOrder
          /\ It.root # None) =>
          LET y == iter.yielded
              expected == RecPreOrder(T, unwrap(It.root))
          IN  /\ IsPrefix(y, expected)
              /\ iter.exhausted > 0 => y = expected
              /\ \A a, b \in 1..Len(y) :
                    /\ (a < b) => ~(y[a] # y[b] /\ InSubtree(T.k, y[b], y[a]))
                    /\ (a < b /\ (y[a] - 1) \div T.k = (y[b] - 1) \div T.k
                          /\ y[a] # 0 /\ y[b] # 0) => y[a] < y[b]

\* a finished pre-order iteration that went down a branch and came back up
C6_Witness ==
    /\ iter.alive /\ It.kind = "depth_first" /\ It.order = PreOrder
    /\ iter.exhausted > 0
    /\ \E a \in 1..(Len(iter.yielded) - 1) : iter.yielded[a] > iter.yielded[a + 1]

\* ------------------------------------------------------------------
\* C7  Post-order depth-first iteration from a node yields each node only
\* after all of its occupied descendants, siblings by increasing child
\* offset, the starting node last; the sequence is the recursive post-order
\* of the subtree (for the 7-node test tree: [1,3,4,2,8,7,5]).
C7_PostOrder ==
    /\ TestTreePostOrder = <<1, 3, 4, 2, 8, 7, 5>>
    /\ (iter.alive /\ It.kind = "depth_first" /\ It.order = PostOrder
          /\ It.root # None) =>
          LET y == iter.yielded
              expected == RecPostOrder(T, unwrap(It.root))
          IN  /\ IsPrefix(y, expected)
              /\ iter.exhausted > 0 =>
                    /\ y = expected
                    /\ y[Len(y)] = unwrap(It.root)
              /\ \A a, b \in 1..Len(y) :
                    /\ (a < b) => ~(y[a] # y[b] /\ InSubtree(T.k, y[a], y[b]))
                    /\ (a < b /\ (y[a] - 1) \div T.k = (y[b] - 1) \div T.k
                          /\ y[a] # 0 /\ y[b] # 0) => y[a] < y[b]

\* a finished post-order iteration over a node with a child and a grandchild
C7_Witness ==
    /\ iter.alive /\ It.kind = "depth_first" /\ It.order = PostOrder
    /\ iter.exhausted > 0
    /\ Len(iter.yielded) >= 3
    /\ \E a \in 1..(Len(iter.yielded) - 1) : iter.yielded[a] > iter.yielded[a + 1]

\* ------------------------------------------------------------------
\* C8  Breadth-first iteration from a node yields the nodes of its occupied
\* subtree in level order: a node before any of its children, depths
\* non-decreasing, and within one depth by increasing array index.
C8_BreadthFirst ==
    /\ TestTreeBreadthFirst = <<5, 2, 7, 1, 4, 8, 3>>
    /\ TestTreeLeftBreadthFirst = <<2, 1, 4, 3>>
    /\ (iter.alive /\ It.kind = "breadth_first" /\ It.root # None) =>
          LET y == iter.yielded
              expected == RecLevelOrder(T, It.root)
          IN  /\ IsPrefix(y, expected)
              /\ iter.exhausted > 0 => y = expected
              /\ \A a, b \in 1..Len(y) :
                    (a < b) =>
                       /\ Depth(T.k, y[a]) <= Depth(T.k, y[b])
                       /\ Depth(T.k, y[a]) = Depth(T.k, y[b]) => y[a] < y[b]
                       /\ ~(y[a] # y[b] /\ InSubtree(T.k, y[b], y[a]))

\* a finished breadth-first iteration that reached a grandchild after
\* both children of its starting node
C8_Witness ==
    /\ iter.alive /\ It.kind = "breadth_first"
    /\ iter.exhausted > 0
    /\ Len(iter.yielded) >= 4
    /\ RecPreOrder(T, unwrap(It.root)) # iter.yielded

\* ------------------------------------------------------------------
\* C9  Iterator exhaustion: in every reachable tree state, an iterator over
\* the whole tree yields exactly len() items, each occupied node exactly
\* once, and every later call of next returns None; on an empty tree the
\* first call already returns None.
C9_IteratorExhaustion ==
    (iter.alive /\ It.kind \in {"depth_first", "breadth_first"}
       /\ It.root = node(T, 0)) =>
        /\ Len(iter.yielded) <= len
        /\ NoRepeat(iter.yielded)
        /\ iter.exhausted > 0 =>
              /\ Len(iter.yielded) = len
              /\ Range(iter.yielded) = OccupiedSet(T)

\* ------------------------------------------------------------------
\* C10  Index inverse: for every branching factor k >= 1, every parent index
\* p and every offset 0 <= o < k, parent_index(child_index(p, o)) = Some(p);
\* and parent_index(0) = None.
C10_IndexInverse ==
    calc.back # None =>
        IF calc.computed
        THEN unwrap(calc.back) = Some(calc.parent)
        ELSE unwrap(calc.child) = 0 /\ unwrap(calc.back) = None

\* ------------------------------------------------------------------
\* C11  Index partition: for a fixed parent p the values child_index(p, o),
\* 0 <= o < k, are pairwise distinct and are exactly the k indices of
\* child_indexes(p); the child ranges of distinct parents do not overlap; so
\* an index >= 1 is the child of one (parent, offset) pair only, recovered by
\* parent_index(index) and index - child_index(parent_index(index), 0).
C11_IndexPartition ==
    /\ calc.child # None =>
          /\ unwrap(calc.child) >= 1
          /\ (unwrap(calc.child) = unwrap(calc.other_child)) =>
                (calc.parent = calc.other_parent /\ calc.offset = calc.other_offset)
    /\ calc.indexes # None =>
          /\ Cardinality(unwrap(calc.indexes)) = calc.k
          /\ unwrap(calc.child) \in unwrap(calc.indexes)
          /\ calc.other_parent = calc.parent <=>
                unwrap(calc.other_child) \in unwrap(calc.indexes)
    /\ calc.recovered # None =>
          unwrap(calc.recovered) = [parent |-> calc.parent, offset |-> calc.offset]

\* ------------------------------------------------------------------
\* C12  Round trip: inserting v at a vacant entry and reading the resulting
\* node yields v and len() grows by one; removing that node immediately
\* afterwards returns v, leaves the position vacant and restores len() to
\* its value before the insert.
C12_RoundTrip ==
    /\ last.op = "insert" =>
          /\ value(T, unwrap(last.ret)) = Some(last.value)
          /\ len = last.pre.len + 1
    /\ last.op = "insert_remove" =>
          /\ ~last.panicked
          /\ last.ret = last.value
          /\ ~Occupied(T, last.index)
          /\ len = last.pre.len

\* the round trip was made at an entry other than the root, above a slot
\* that was occupied before the insert
C12_Witness ==
    /\ last.op = "insert_remove"
    /\ last.index # 0
    /\ last.ret = Some("b")
    /\ \E j \in OccupiedSet(last.pre) : InSubtree(T.k, last.index, j)

\* ------------------------------------------------------------------
\* C13  Idempotent vacancy: remove (or remove_mut) on a vacant entry returns
\* no value, leaves the entry vacant at the same index, and changes neither
\* len() nor any slot of the tree.
C13_IdempotentVacancy ==
    (last.op = "entry_remove" /\ ~Occupied(last.pre, last.index)) =>
        /\ last.ret = None
        /\ ~Occupied(T, last.index)
        /\ len = last.pre.len
        /\ nodes = last.pre.nodes

\* remove was called on a vacant entry other than the root, in a tree
\* holding values
C13_Witness ==
    /\ last.op = "entry_remove"
    /\ ~Occupied(last.pre, last.index)
    /\ last.index # 0
    /\ last.pre.len >= 2

\* ------------------------------------------------------------------
\* C14  or_insert / or_insert_with on an occupied entry returns the handle of
\* the existing node and leaves its value, len() and every other slot
\* unchanged; on a vacant entry it stores the given value at the entry's
\* index and len() grows by exactly one.
C14_OrInsert ==
    last.op = "or_insert" =>
        /\ last.ret = Some(last.index)
        /\ node(T, last.index) = last.ret
        /\ \A j \in 0..MaxIndex :
              j # last.index => SlotAt(T, j) = SlotAt(last.pre, j)
        /\ IF Occupied(last.pre, last.index)
           THEN /\ SlotAt(T, last.index) = SlotAt(last.pre, last.index)
                /\ len = last.pre.len
                /\ nodes = last.pre.nodes
           ELSE /\ SlotAt(T, last.index) = last.value
                /\ len = last.pre.len + 1

\* or_insert was called with one value on an entry occupied by the other
C14_Witness ==
    /\ last.op = "or_insert"
    /\ last.index # 0
    /\ Occupied(last.pre, last.index)
    /\ SlotAt(last.pre, last.index) # last.value

\* ------------------------------------------------------------------
\* C15  set_root_value on a tree whose root is occupied replaces only the
\* root's value: len() is unchanged and every descendant slot keeps its
\* value; when the root is vacant, the value is stored and len() grows by
\* exactly one.
C15_SetRootValue ==
    last.op = "set_root_value" =>
        /\ SlotAt(T, 0) = last.value
        /\ \A j \in 1..MaxIndex : SlotAt(T, j) = SlotAt(last.pre, j)
        /\ Len(nodes) = Len(last.pre.nodes)
        /\ len = IF Occupied(last.pre, 0) THEN last.pre.len ELSE last.pre.len + 1

\* the value of an occupied root with descendants was replaced by the other
\* value
C15_Witness ==
    /\ last.op = "set_root_value"
    /\ Occupied(last.pre, 0)
    /\ SlotAt(last.pre, 0) # last.value
    /\ last.pre.len >= 3

\* ------------------------------------------------------------------
\* C16  NodeMut::set_child_value(offset, value) behaves as clear followed by
\* set at the child position: when that child position is already occupied,
\* the child's previous descendants are removed, so afterwards the child
\* holds the new value and has no occupied descendants.
C16_SetChildValueClears ==
    (last.op = "set_child_value" /\ Occupied(last.pre, last.index)) =>
        /\ SlotAt(T, last.index) = last.value
        /\ \A j \in 0..MaxIndex :
              (j # last.index /\ InSubtree(T.k, last.index, j)) => ~Occupied(T, j)

\* C16, as the code has it: NodeMut::set_child_value(offset, value) stores
\* the value at the child position and changes no other slot, so the
\* descendants of an occupied child stay as they were; len() grows by one
\* when the position was vacant and is unchanged when it was occupied.
C16_SetChildValueKeeps ==
    last.op = "set_child_value" =>
        /\ last.index = child_index(T.k, unwrap(parent_index(T.k, last.index)),
                                    last.offset)
        /\ SlotAt(T, last.index) = last.value
        /\ \A j \in 0..MaxIndex :
              j # last.index => SlotAt(T, j) = SlotAt(last.pre, j)
        /\ len = IF Occupied(last.pre, last.index)
                 THEN last.pre.len ELSE last.pre.len + 1

\* the value of an occupied child that has an occupied descendant was set
C16_Witness ==
    /\ last.op = "set_child_value"
    /\ Occupied(last.pre, last.index)
    /\ SlotAt(last.pre, last.index) # last.value
    /\ \E j \in OccupiedSet(last.pre) :
          j # last.index /\ InSubtree(T.k, last.index, j)

C18_OffsetOutOfRange ==
    last.op = "offset_out_of_range" =>
        /\ last.panicked
        /\ nodes = last.pre.nodes
        /\ len = last.pre.len
        /\ index_calculator = last.pre.k

\* set_child_value was called with an offset out of range on a handle other
\* than the root
C18_Witness ==
    /\ last.op = "offset_out_of_range"
    /\ last.ret = Some("set_child_value")
    /\ last.index # 0
    /\ last.offset >= index_calculator
    /\ last.pre.len >= 2

\* ------------------------------------------------------------------
\* C19  The child iterator of a node yields exactly the occupied children of
\* that node, in strictly increasing child offset, skipping vacant
\* positions; it yields at most branching-factor items and then returns None
\* on every later call.
C19_ChildIter ==
    (iter.alive /\ It.kind = "child") =>
        LET y == iter.yielded
            first == (It.node * T.k) + 1
            children == {j \in first..(first + T.k - 1) : Occupied(T, j)}
        IN  /\ Range(y) \subseteq children
            /\ \A a, b \in 1..Len(y) : a < b => y[a] < y[b]
            /\ Len(y) <= T.k
            /\ IsPrefix(y, ChildrenFrom(T, It.node, 0))
            /\ iter.exhausted > 0 => Range(y) = children

\* a child iterator that skipped a vacant position, yielded a child and
\* was called again after it had returned None
C19_Witness ==
    /\ iter.alive /\ It.kind = "child"
    /\ iter.exhausted >= 2
    /\ Len(iter.yielded) >= 1
    /\ ~Occupied(T, (It.node * T.k) + 1)

\* what the owning iterators of the tests' tree collect
TestTreeIntoPreOrder ==
    into_collect(TestTree, into_depth_first_iterator(TestTree, PreOrder))

TestTreeIntoPostOrder ==
    into_collect(TestTree, into_depth_first_iterator(TestTree, PostOrder))

TestTreeIntoBreadthFirst ==
    into_collect(TestTree, into_breadth_first_iterator(TestTree))

\* the borrowing iterator that corresponds to the owning iterator `it`,
\* started on the tree the owning iterator was given
BorrowingOf(it) ==
    IF it.inner.kind = "depth_first"
    THEN DepthFirstIter_new(node(it.source, 0), it.inner.order)
    ELSE BreadthFirstIter_new(node(it.source, 0))

C21_WalkStaysBelowStart ==
    (walk.active /\ walk.calls > 0) =>
        /\ InSubtree(T.k, walk.self.index, walk.on.index)
        /\ (~walk.returned => InSubtree(T.k, walk.self.index, walk.current.index))
        /\ ((walk.action = Parent /\ walk.on.index = walk.self.index)
               => walk.returned)

\* ------------------------------------------------------------------
\* C22 as claimed: when the handler answers Child(offset) and the child
\* position at that offset is vacant, the walk stops and the handler is not
\* invoked again.
C22_VacantChildStops ==
    (walk.active /\ walk.calls > 0 /\ walk.action.tag = "Child"
       /\ ~Occupied(T, child_index(T.k, walk.on.index, walk.action.offset)))
      => walk.returned

\* C22 as the code has it: a Child(offset) answered on a vacant entry stops
\* the walk and the handler is not invoked again; a Child(offset) answered on
\* an occupied node moves the cursor to the entry of that child position,
\* vacant or not, and the walk goes on with the handler invoked on it.
C22_ChildOfVacantStops ==
    (walk.active /\ walk.calls > 0 /\ walk.action.tag = "Child") =>
        IF ~walk.on.occupied
        THEN walk.returned
        ELSE /\ ~walk.returned
             /\ walk.current.index
                  = child_index(T.k, walk.on.index, walk.action.offset)
             /\ walk.current.occupied = Occupied(T, walk.current.index)

\* a read-only walk went down to a vacant child entry, the handler answered
\* Child there and the walk returned
C22_Witness ==
    /\ walk.active /\ ~walk.mutable
    /\ walk.calls >= 2
    /\ walk.action.tag = "Child"
    /\ ~walk.on.occupied
    /\ walk.on.index # walk.self.index
    /\ walk.returned

\* ------------------------------------------------------------------
\* C23: in walk and in walk_mut, a Parent answered while the cursor is
\* strictly below the starting position moves the cursor exactly one level
\* up, to the parent of the position the handler was called on, and the
\* walk goes on with the handler invoked on that parent.
C23_ParentMovesOneLevelUp ==
    (walk.active /\ walk.calls > 0 /\ walk.action = Parent
       /\ walk.on.index # walk.self.index
       /\ InSubtree(T.k, walk.self.index, walk.on.index))
      => /\ ~walk.returned
         /\ Some(walk.current.index) = parent_index(T.k, walk.on.index)
         /\ walk.current.occupied

\* ------------------------------------------------------------------
\* C24 as claimed: in walk_mut, at every call of the handler inside the loop
\* the levels counter equals depth(cursor) - depth(starting position), it
\* never underflows, and the to_parent call made for a Parent answer at
\* levels > 0 always succeeds.
C24_LevelsAndToParent ==
    (walk.active /\ walk.mutable /\ walk.in_loop) =>
        /\ walk.levels >= 0
        /\ walk.levels = Depth(T.k, walk.current.index) - Depth(T.k, walk.self.index)
        /\ walk.on_levels = Depth(T.k, walk.on.index) - Depth(T.k, walk.self.index)
        /\ walk.to_parent # "err"

\* C24 as the code has it: in walk_mut, at every call of the handler inside
\* the loop the levels counter equals depth(cursor) - depth(starting
\* position) and it never underflows; the to_parent call made for a Parent
\* answer at levels > 0 succeeds whenever the slot above the cursor still
\* holds a value, and fails, ending the walk, only when the handler has
\* emptied that slot.
C24_LevelsTrackDepth ==
    (walk.active /\ walk.mutable /\ walk.in_loop) =>
        /\ walk.levels >= 0
        /\ walk.levels = Depth(T.k, walk.current.index) - Depth(T.k, walk.self.index)
        /\ walk.on_levels = Depth(T.k, walk.on.index) - Depth(T.k, walk.self.index)
        /\ (walk.action = Parent /\ walk.on_levels > 0) =>
              /\ walk.to_parent \in {"ok", "err"}
              /\ (walk.to_parent = "err")
                    = ~Occupied(T, unwrap(parent_index(T.k, walk.on.index)))
              /\ (walk.to_parent = "err") = walk.returned

\* walk_mut went two levels down and came back up to the starting position
\* through two to_parent calls
C24_Witness ==
    /\ walk.active /\ walk.mutable /\ walk.in_loop
    /\ walk.calls >= 4
    /\ walk.action = Parent
    /\ walk.on_levels = 1
    /\ walk.to_parent = "ok"
    /\ walk.levels = 0
    /\ walk.current.index = walk.self.index

\* ------------------------------------------------------------------
\* C25: split_off called on any occupied node of a tree that satisfies the
\* invariants I1 and I2, the root with two or more occupied children
\* included, runs to completion: no expect or unwrap of the store's split_off
\* fails, every to_parent move of the destination cursor succeeds, and a new
\* tree is returned.
C25_SplitOffCompletes ==
    (last.op = "split_off" /\ Occupied(last.pre, last.index)
       /\ I1(last.pre) /\ I2(last.pre))
      => /\ ~last.panicked
         /\ last.split # None

\* ------------------------------------------------------------------
\* C26: split_off conserves the node count. After split_off on an occupied
\* node, len() of the new tree is the number of occupied nodes in the split
\* subtree, len() of the source afterwards plus len() of the new tree is
\* len() of the source before, and the new tree has the branching factor of
\* the source.
C26_SplitOffConservesCount ==
    (last.op = "split_off" /\ Occupied(last.pre, last.index)) =>
        /\ last.split # None
        /\ LET new_tree == unwrap(last.split)
           IN  /\ new_tree.len
                     = Cardinality({j \in OccupiedSet(last.pre) :
                                       InSubtree(last.pre.k, last.index, j)})
               /\ len + new_tree.len = last.pre.len
               /\ new_tree.k = last.pre.k

\* ------------------------------------------------------------------
\* C27: after any sequence of operations, inserting a value at a vacant
\* position (VacantEntryMut::insert, or_insert on a vacant entry,
\* set_child_value on a vacant child) yields a node with no occupied
\* children: no node removed earlier reappears under it.
C27_InsertedNodeIsLeaf ==
    (last.op \in {"insert", "or_insert", "set_child_value"}
       /\ ~last.panicked
       /\ ~Occupied(last.pre, last.index))
      => /\ Occupied(T, last.index)
         /\ \A o \in 0..(T.k - 1) :
                ~Occupied(T, child_index(T.k, last.index, o))

\* ------------------------------------------------------------------
\* C28: from any reachable state, removing the root through its entry or
\* handle (root_entry_mut().remove(), root_mut().remove()) and removing it
\* through remove_root_value() or clear() return the same old root value and
\* leave the tree in equal states: what the entry or handle leaves has the
\* occupied slots and the len() that remove_root_value leaves, that is no
\* occupied slot, len() == 0 and root() == None.
C28_RootRemovalsAgree ==
    (last.index = 0
       /\ last.op \in {"remove", "entry_remove", "remove_root_value", "clear"})
      => LET cleared == remove_root_value(last.pre)
         IN  /\ OccupiedSet(T) = OccupiedSet(cleared.tree)
             /\ len = cleared.tree.len
             /\ OccupiedSet(T) = {}
             /\ len = 0
             /\ node(T, 0) = None
             /\ (last.op # "clear" => last.ret = cleared.value)

\* ------------------------------------------------------------------
\* C29: removing the node at index i leaves every slot that is not i and not
\* a descendant of i unchanged, with the same occupancy and the same value,
\* and returns the value that was stored at i.
C29_RemoveFrame ==
    (last.op \in RemoveOps /\ Occupied(last.pre, last.index)) =>
        /\ \A j \in 0..MaxIndex :
               ~InSubtree(T.k, last.index, j) => SlotAt(T, j) = SlotAt(last.pre, j)
        /\ last.ret = SlotAt(last.pre, last.index)
        /\ ~last.panicked

\* a node with an occupied child was removed while a slot with a larger
\* index outside its subtree held a value
C29_Witness ==
    /\ last.op = "remove"
    /\ Occupied(last.pre, last.index)
    /\ \E o \in 0..(T.k - 1) :
          Occupied(last.pre, child_index(T.k, last.index, o))
    /\ \E j \in 0..MaxIndex :
          /\ j > last.index
          /\ ~InSubtree(T.k, last.index, j)
          /\ Occupied(last.pre, j)
          /\ Occupied(T, j)

\* ------------------------------------------------------------------
\* the occupied slots of t, each with its value
OccupiedSlots(t) == {<<j, SlotAt(t, j)>> : j \in OccupiedSet(t)}

\* C30: tree equality depends only on the branching factor and the set of
\* occupied (index, value) slots: two trees with the same branching factor
\* and the same occupied slots compare equal even when their backing arrays
\* have different lengths, and trees that differ in an occupied slot, or in
\* the branching factor, compare unequal.
C30_Equality ==
    last.op = "eq" =>
        unwrap(last.ret)
          = (T.k = last.pre.k /\ OccupiedSlots(T) = OccupiedSlots(last.pre))

\* the tree compared equal to a tree with a shorter backing array
C30_Witness ==
    /\ last.op = "eq"
    /\ unwrap(last.ret)
    /\ len > 0
    /\ Len(nodes) > Len(last.pre.nodes)

====
